---- MODULE Spec2Model ----
(***************************************************************************)
(* Model of src/sshuri.rs: the SSHUri value type, SSHUri::from (parse) and *)
(* SSHUri::join.  A Rust string is a sequence of one-character strings; an *)
(* Option<T> is a sequence of length 0 (None) or 1 (Some).  A PathBuf is   *)
(* the raw string it was built from; two PathBufs are compared by their    *)
(* components, as std::path does on Unix.                                  *)
(***************************************************************************)
EXTENDS Naturals, Sequences, FiniteSets, TLC

\* Longest input string handed to SSHUri::from.
MaxLen == 4
\* Largest total number of segments handed to successive join calls.
MaxSegs == 2

\* Characters of the input strings: the two delimiters, the path separator
\* and an ordinary character.
Chars == {"@", ":", "/", "a"}

RECURSIVE Strings(_)
Strings(n) ==
  IF n = 0 THEN {<<>>}
  ELSE LET S == Strings(n - 1)
       IN S \cup {Append(s, c) : s \in {t \in S : Len(t) = n - 1}, c \in Chars}

\* Path segments handed to join: empty, plain, absolute, parent directory,
\* current directory.
Segments == {<<>>, <<"a">>, <<"/", "a">>, <<".", ".">>, <<".">>}

RECURSIVE SegLists(_)
SegLists(n) ==
  IF n = 0 THEN {<<>>}
  ELSE LET S == SegLists(n - 1)
       IN S \cup {Append(l, s) : l \in {t \in S : Len(t) = n - 1}, s \in Segments}

\* The inputs of from and the arguments of join.
Inputs == Strings(MaxLen)
AllParts == SegLists(MaxSegs)

None == <<>>
Some(x) == <<x>>

(***************************************************************************)
(* str::find and its mirror image, with Rust's 0-based index.              *)
(***************************************************************************)
rfind(s, c) ==
  IF \E i \in 1..Len(s) : s[i] = c
  THEN Some((CHOOSE i \in 1..Len(s) :
               s[i] = c /\ \A j \in (i + 1)..Len(s) : s[j] # c) - 1)
  ELSE None

find(s, c) ==
  IF \E i \in 1..Len(s) : s[i] = c
  THEN Some((CHOOSE i \in 1..Len(s) :
               s[i] = c /\ \A j \in 1..(i - 1) : s[j] # c) - 1)
  ELSE None

(***************************************************************************)
(* std::path on Unix, as used through PathBuf::join and PathBuf's Eq.      *)
(***************************************************************************)
is_sep_byte(c) == c = "/"

is_absolute(p) == Len(p) > 0 /\ is_sep_byte(p[1])

\* Path::join that never inserts a separator.
PathJoinConcat(p, seg) == IF is_absolute(seg) THEN seg ELSE p \o seg

\* Path::join = clone + PathBuf::push: an absolute argument replaces the
\* path, otherwise a separator is added unless the path is empty or ends
\* in one.
PathJoin(p, seg) ==
  LET need_sep == Len(p) > 0 /\ ~is_sep_byte(p[Len(p)])
  IN IF is_absolute(seg) THEN seg
     ELSE IF need_sep THEN p \o <<"/">> \o seg
     ELSE p \o seg

\* The pieces of p between separators, empty pieces included.
RECURSIVE SplitSep(_, _)
SplitSep(p, piece) ==
  IF p = <<>> THEN <<piece>>
  ELSE IF is_sep_byte(Head(p)) THEN <<piece>> \o SplitSep(Tail(p), <<>>)
  ELSE SplitSep(Tail(p), Append(piece, Head(p)))

IsNormal(piece) == piece # <<>> /\ piece # <<".">>

\* Path::components: RootDir, a leading CurDir of a relative path, then the
\* pieces that are neither empty nor ".".
Components(p) ==
  LET include_cur_dir ==
        /\ ~is_absolute(p)
        /\ \/ p = <<".">>
           \/ Len(p) >= 2 /\ p[1] = "." /\ is_sep_byte(p[2])
  IN (IF is_absolute(p) THEN << <<"/">> >> ELSE <<>>)
     \o (IF include_cur_dir THEN << <<".">> >> ELSE <<>>)
     \o SelectSeq(SplitSep(p, <<>>), IsNormal)

\* PartialEq for PathBuf compares components.
PathEq(p, q) == Components(p) = Components(q)

(***************************************************************************)
(* SSHUri                                                                  *)
(***************************************************************************)
SSHUri(original, user, uri, host, path) ==
  [original |-> original, user |-> user, uri |-> uri, host |-> host,
   path |-> path]

\* #[derive(Eq, PartialEq)]: all five fields, the path by components.
Eq(a, b) ==
  /\ a.original = b.original
  /\ a.user = b.user
  /\ a.uri = b.uri
  /\ a.host = b.host
  /\ PathEq(a.path, b.path)

\* from with the host slice one character short.
from_short_host(src) ==
  LET at == find(src, "@")
      user == IF at # None THEN Some(SubSeq(src, 1, at[1])) ELSE None
      uri == IF at # None THEN SubSeq(src, at[1] + 2, Len(src)) ELSE src
      colon == find(uri, ":")
  IN IF colon # None
     THEN [outcome |-> "Ok",
           value |-> Some(SSHUri(src, user, uri,
                                 SubSeq(uri, 1, colon[1] - 1),
                                 SubSeq(uri, colon[1] + 2, Len(uri))))]
     ELSE [outcome |-> "Panic", value |-> None]

\* from with an empty user name folded into None.
from_empty_user_none(src) ==
  LET at == find(src, "@")
      user == IF at # None /\ at[1] > 0
              THEN Some(SubSeq(src, 1, at[1])) ELSE None
      uri == IF at # None THEN SubSeq(src, at[1] + 2, Len(src)) ELSE src
      colon == find(uri, ":")
  IN IF colon # None
     THEN [outcome |-> "Ok",
           value |-> Some(SSHUri(src, user, uri,
                                 SubSeq(uri, 1, colon[1]),
                                 SubSeq(uri, colon[1] + 2, Len(uri))))]
     ELSE [outcome |-> "Panic", value |-> None]

\* SSHUri::from.  The outcome is "Ok" with the value, or "Panic" (the
\* process aborts and no value exists); the function has no path that
\* returns Err.  PathBuf::from keeps the string as it is.
from(src) ==
  LET at == find(src, "@")
      user == IF at # None THEN Some(SubSeq(src, 1, at[1])) ELSE None
      uri == IF at # None THEN SubSeq(src, at[1] + 2, Len(src)) ELSE src
      colon == find(uri, ":")
  IN IF colon # None
     THEN [outcome |-> "Ok",
           value |-> Some(SSHUri(src, user, uri,
                                 SubSeq(uri, 1, colon[1]),
                                 SubSeq(uri, colon[1] + 2, Len(uri))))]
     ELSE [outcome |-> "Panic", value |-> None]

\* parts.iter().fold(acc, |acc, v| acc.join(v))
RECURSIVE fold(_, _)
fold(acc, parts) ==
  IF parts = <<>> THEN acc
  ELSE fold(PathJoin(acc, Head(parts)), Tail(parts))

\* The same fold over the parts in reverse order.
RECURSIVE fold_rev(_, _)
fold_rev(acc, parts) ==
  IF parts = <<>> THEN acc
  ELSE PathJoin(fold_rev(acc, Tail(parts)), Head(parts))

\* join folding the parts last to first.
join_rev(self, parts) ==
  SSHUri(self.original, self.user, self.uri, self.host,
         fold_rev(self.path, parts))

\* join starting from the path kept in the uri string, not from self.path.
join_from_uri(self, parts) ==
  SSHUri(self.original, self.user, self.uri, self.host,
         fold(SubSeq(self.uri, Len(self.host) + 2, Len(self.uri)), parts))

\* join keeping the uri string in step with host and path.
join_refresh_uri(self, parts) ==
  SSHUri(self.original, self.user,
         self.host \o <<":">> \o fold(self.path, parts),
         self.host, fold(self.path, parts))

\* SSHUri::join
join(self, parts) ==
  SSHUri(self.original, self.user, self.uri, self.host,
         fold(self.path, parts))

(***************************************************************************)
(* A caller: parse one input, then derive values by successive joins.      *)
(***************************************************************************)
VARIABLES
  src,      \* the string handed to SSHUri::from
  outcome,  \* "NotCalled", or how the call of from ended
  parsed,   \* Option: the value from returned
  self,     \* Option: the receiver of the latest join call
  parts,    \* the argument of the latest join call
  result,   \* Option: the value the latest join call returned
  hist      \* all segments handed to join so far, in order

vars == <<src, outcome, parsed, self, parts, result, hist>>

Init ==
  /\ src \in Inputs
  /\ outcome = "NotCalled"
  /\ parsed = None
  /\ self = None
  /\ parts = <<>>
  /\ result = None
  /\ hist = <<>>

Parse ==
  /\ outcome = "NotCalled"
  /\ outcome' = from(src).outcome
  /\ parsed' = from(src).value
  /\ UNCHANGED <<src, self, parts, result, hist>>

\* The value the caller holds: the latest join result, else the parsed one.
Current == IF result # None THEN result[1] ELSE parsed[1]

Join ==
  /\ outcome = "Ok"
  /\ \E p \in AllParts :
       /\ Len(hist) + Len(p) <= MaxSegs
       /\ self' = Some(Current)
       /\ parts' = p
       /\ result' = Some(join(Current, p))
       /\ hist' = hist \o p
  /\ UNCHANGED <<src, outcome, parsed>>

Next == Parse \/ Join

Spec == Init /\ [][Next]_vars

(***************************************************************************)
(* Vocabulary of the properties, stated without find or slicing.           *)
(***************************************************************************)
HasChar(s, c) == \E i \in 1..Len(s) : s[i] = c

IsPrefix(p, q) == Len(p) <= Len(q) /\ SubSeq(q, 1, Len(p)) = p

EndsWithSep(p) == Len(p) > 0 /\ p[Len(p)] = "/"

\* The text after the first '@', or the whole input when there is none.
RECURSIVE RemainderOf(_)
RemainderOf(s) ==
  IF ~HasChar(s, "@") THEN s
  ELSE IF Head(s) = "@" THEN Tail(s)
  ELSE RemainderOf(Tail(s))

\* The value the latest join arguments derive from the parsed value.
Sibling == join(parsed[1], parts)

\* p followed by each segment as a new trailing component.
RECURSIVE AppendedVerbatim(_, _)
AppendedVerbatim(p, segs) ==
  IF segs = <<>> THEN p
  ELSE AppendedVerbatim(
         IF Len(p) > 0 /\ p[Len(p)] # "/" THEN p \o <<"/">> \o Head(segs)
         ELSE p \o Head(segs),
         Tail(segs))

\* The values the caller has seen in this state.
Seen == {parsed[1]} \cup (IF result # None THEN {self[1], result[1]} ELSE {})

\* The input without its last character, parsed.
WithoutLast == from(SubSeq(src, 1, Len(src) - 1)).value[1]

(***************************************************************************)
(* C1: an input whose remainder has no ':' makes from return an InvalidUri *)
(* error value, without aborting and without producing an SSHUri.          *)
(***************************************************************************)
C1_InvalidUriIsReturned ==
  (outcome # "NotCalled" /\ ~HasChar(RemainderOf(src), ":"))
    => (outcome = "Err" /\ parsed = None)

(***************************************************************************)
(* C2: a successful parse splits at the first '@' and at the first ':' of  *)
(* the remainder: the input is user, '@', host, ':', path (or host, ':',   *)
(* path with user absent when it has no '@'), user has no '@', host has no *)
(* ':', and original is the input.                                         *)
(***************************************************************************)
C2_SplitAtFirstDelimiters ==
  outcome = "Ok" =>
    LET u == parsed[1]
    IN /\ u.original = src
       /\ ~HasChar(u.host, ":")
       /\ u.uri = RemainderOf(src)
       /\ IF HasChar(src, "@")
          THEN /\ u.user # None
               /\ ~HasChar(u.user[1], "@")
               /\ src = u.user[1] \o <<"@">> \o u.host \o <<":">> \o u.path
          ELSE /\ u.user = None
               /\ src = u.host \o <<":">> \o u.path

C2_Witness ==
  /\ outcome = "Ok"
  /\ HasChar(src, "@")
  /\ HasChar(parsed[1].host, "@")
  /\ HasChar(parsed[1].path, ":")

(***************************************************************************)
(* C3 as stated: the host of a parsed value, and of every value joined     *)
(* from it, is non-empty.                                                  *)
(***************************************************************************)
C3_HostNeverEmpty ==
  outcome = "Ok" => \A v \in Seen : v.host # <<>>

(***************************************************************************)
(* C3 amended: the host is empty exactly when the remainder begins with    *)
(* ':', and every value joined from the parsed one has the parsed host.    *)
(***************************************************************************)
C3_HostEmptyOnlyBeforeLeadingColon ==
  outcome = "Ok" =>
    /\ parsed[1].host = <<>> <=> Head(RemainderOf(src)) = ":"
    /\ \A v \in Seen : v.host = parsed[1].host

C3_Witness ==
  /\ outcome = "Ok"
  /\ result # None
  /\ Len(hist) = MaxSegs
  /\ result[1].host # <<>>

(***************************************************************************)
(* C4: the path join returns is the base path followed by each segment as  *)
(* a new trailing component, so the base path is a prefix of it.           *)
(***************************************************************************)
C4_BasePathIsPrefix ==
  result # None =>
    /\ IsPrefix(self[1].path, result[1].path)
    /\ IsPrefix(parsed[1].path, result[1].path)
    /\ result[1].path = AppendedVerbatim(self[1].path, parts)

(***************************************************************************)
(* C5: joining in successive calls equals one join of the concatenated     *)
(* segment lists: join(join(u, s1), s2) = join(u, s1 ++ s2).               *)
(***************************************************************************)
C5_JoinAssociative ==
  result # None => Eq(result[1], join(parsed[1], hist))

C5_Witness ==
  /\ result # None
  /\ Len(parts) = 1
  /\ Len(hist) = 2
  /\ hist[1] # hist[2]
  /\ self[1].path # parsed[1].path

(***************************************************************************)
(* C6: every join call returns a value, and a join with no segments        *)
(* returns a value equal to its receiver.                                  *)
(***************************************************************************)
C6_JoinEmptyIsIdentity ==
  self # None =>
    /\ result # None
    /\ parts = <<>> => Eq(result[1], self[1])

C6_Witness ==
  /\ self # None
  /\ parts = <<>>
  /\ hist # <<>>
  /\ self[1].path # parsed[1].path

(***************************************************************************)
(* C7: the value join returns has the original, user, host and uri of its  *)
(* receiver, and the receiver is as it was (the parsed value is still what *)
(* from returned after it has been joined).                                *)
(***************************************************************************)
C7_JoinChangesOnlyPath ==
  self # None =>
    /\ result[1].original = self[1].original
    /\ result[1].user = self[1].user
    /\ result[1].host = self[1].host
    /\ result[1].uri = self[1].uri
    /\ parsed = from(src).value
    /\ hist = parts => self = parsed

C7_Witness ==
  /\ self # None
  /\ parts # <<>>
  /\ self[1].user # None
  /\ ~PathEq(result[1].path, self[1].path)

(***************************************************************************)
(* C8: two values obtained by parse and joins are equal exactly when their *)
(* original, user, host and path are equal; the uri field never separates  *)
(* two values that agree on those four.                                    *)
(***************************************************************************)
C8_EqualityIsFourFields ==
  result # None =>
    \A a \in Seen \cup {Sibling} :
      Eq(result[1], a) <=>
        /\ result[1].original = a.original
        /\ result[1].user = a.user
        /\ result[1].host = a.host
        /\ PathEq(result[1].path, a.path)

C8_Witness ==
  /\ result # None
  /\ result[1].path # parsed[1].path
  /\ Eq(result[1], parsed[1])

(***************************************************************************)
(* C9 as stated: when the path part ends in '/', the parsed path equals    *)
(* the path parsed from the input without that '/', and the same joins on  *)
(* both give equal paths.                                                  *)
(***************************************************************************)
C9_TrailingSeparatorIgnored ==
  (outcome = "Ok" /\ EndsWithSep(parsed[1].path)) =>
    /\ PathEq(parsed[1].path, WithoutLast.path)
    /\ result # None => PathEq(result[1].path, join(WithoutLast, hist).path)

(***************************************************************************)
(* C9 amended: the same, for a path part that ends in '/' and is longer    *)
(* than the one character '/'.                                             *)
(***************************************************************************)
C9_TrailingSeparatorIgnoredUnlessRoot ==
  (outcome = "Ok" /\ EndsWithSep(parsed[1].path) /\ parsed[1].path # <<"/">>) =>
    /\ PathEq(parsed[1].path, WithoutLast.path)
    /\ result # None => PathEq(result[1].path, join(WithoutLast, hist).path)

C9_Witness ==
  /\ outcome = "Ok"
  /\ EndsWithSep(parsed[1].path)
  /\ parsed[1].path # <<"/">>
  /\ result # None
  /\ hist = <<<<"a">>, <<"a">>>>
  /\ result[1].path # join(WithoutLast, hist).path

(***************************************************************************)
(* C10: the user of a parsed value, and of every value joined from it, is  *)
(* None exactly when the original has no '@'; an input that starts with    *)
(* '@' has the user Some("").                                              *)
(***************************************************************************)
C10_UserNoneIffNoAt ==
  outcome = "Ok" =>
    /\ \A v \in Seen : v.user = None <=> ~HasChar(v.original, "@")
    /\ (src # <<>> /\ Head(src) = "@") => parsed[1].user = Some(<<>>)

C10_Witness ==
  /\ outcome = "Ok"
  /\ Head(src) = "@"
  /\ result # None
  /\ hist # <<>>

====
